---- MODULE Spec2Model ----
(***************************************************************************)
(* Model of the cross-channel point matching of the PNN colocalization     *)
(* pipeline (src/colocalization.py).                                       *)
(*                                                                         *)
(*   - find_colocalizations: nearest-neighbour matching of two detection   *)
(*     sets under a pixel threshold;                                       *)
(*   - process_section / write_section_outputs: loading of the channels of *)
(*     one section, the pairwise matching of the loaded channels and the   *)
(*     triple resolution find_triple_colocalizations;                      *)
(*   - generate_distance_distribution / create_distribution_report /       *)
(*     write_distance_distribution: the distance histogram of a channel    *)
(*     pair, its plateau truncation and its report.                        *)
(*                                                                         *)
(* Representation.  A detection set (pandas DataFrame with columns X, Y)   *)
(* is a sequence of points <<x, y>>; the detection at position i (1-based) *)
(* carries the index i + 1, which is the CSV row number the loader assigns *)
(* (0-based position + 2).  Distances are fixed-point numbers with Scale   *)
(* units per pixel: Distance is the square root rounded down to a multiple *)
(* of 1/Scale pixel, thresholds are expressed in the same unit.            *)
(***************************************************************************)
EXTENDS Integers, Sequences, FiniteSets, TLC

\* ------------------------------------------------------------------ bounds
\* Largest number of detections in one set given to find_colocalizations.
MaxLen == 2
\* Detections given to find_colocalizations lie on (0..MaxCoord) x (0..1).
MaxCoord == 1
\* Largest number of detections of one section, all its channels together.
SecMaxTotal == 5
\* Detections of a section lie on (0..SecMaxCoord) x {0}.
SecMaxCoord == 2

\* Fixed-point resolution of a distance: units per pixel.
Scale == 100

\* Python's None where a number is expected.
NoneVal == -1

\* ------------------------------------------------------------ sequences
RECURSIVE SeqsUpTo(_, _)
SeqsUpTo(S, n) ==
    IF n = 0 THEN {<<>>}
    ELSE LET shorter == SeqsUpTo(S, n - 1)
         IN  shorter \cup {Append(s, e) : s \in {t \in shorter : Len(t) = n - 1}, e \in S}

Range(s) == {s[i] : i \in 1..Len(s)}

\* list.index(x): position of the first occurrence (0 when absent).
IndexOf(s, x) ==
    IF x \in Range(s) THEN CHOOSE i \in 1..Len(s) : s[i] = x /\ \A j \in 1..(i - 1) : s[j] # x
    ELSE 0

\* ------------------------------------------------------------ distances
RECURSIVE ISqrtIter(_, _, _)
ISqrtIter(n, lo, hi) ==
    IF lo >= hi THEN lo
    ELSE LET mid == (lo + hi + 1) \div 2
         IN  IF mid * mid <= n THEN ISqrtIter(n, mid, hi) ELSE ISqrtIter(n, lo, mid - 1)

\* np.sqrt at the model's resolution: the largest r with r * r <= n.
ISqrt(n) == ISqrtIter(n, 0, IF n < 46340 THEN n ELSE 46340)

\* The square of the Euclidean distance of two points: np.sum((c2 - c1) ** 2).
SqDist(p, q) == (q[1] - p[1]) * (q[1] - p[1]) + (q[2] - p[2]) * (q[2] - p[2])

\* The fixed-point square roots of the squared distances up to that of the
\* corners (0, 0) and (20, 20), computed once.
SqrtTable == [n \in 0..(2 * 20 * 20) |-> ISqrt(n * Scale * Scale)]

\* np.sqrt(np.sum((coords2 - coord1) ** 2, axis=1)) for one row of coords2.
Distance(p, q) ==
    LET n == SqDist(p, q)
    IN  IF n \in DOMAIN SqrtTable THEN SqrtTable[n] ELSE ISqrt(n * Scale * Scale)

\* df.index = df.index + 2: the index of the detection at (1-based) position i.
RowIndex(i) == i + 1

\* A CSV file that load_localizations cannot read or that lacks column X or Y.
LoadError == [ok |-> FALSE, rows |-> <<>>]

\* load_localizations returns a DataFrame (TRUE) or None (FALSE).
Loads(file) == file.ok

\* distances of one detection of set 1 to every detection of set 2.
DistancesTo(coord1, coords2) == [j \in 1..Len(coords2) |-> Distance(coord1, coords2[j])]

\* ArgMin returning the last occurrence of the minimum instead of the first.
ArgMinLast(d) ==
    CHOOSE j \in 1..Len(d) :
        /\ \A k \in 1..Len(d) : d[j] <= d[k]
        /\ \A k \in (j + 1)..Len(d) : d[k] > d[j]

\* np.argmin: the position of the first occurrence of the minimum.
ArgMin(d) ==
    CHOOSE j \in 1..Len(d) :
        /\ \A k \in 1..Len(d) : d[j] <= d[k]
        /\ \A k \in 1..(j - 1) : d[k] > d[j]

\* ------------------------------------------------- find_colocalizations
EmptyColocData == [pairs |-> <<>>, distances |-> <<>>, unpaired_1 |-> <<>>, unpaired_2 |-> <<>>]

\* WithinThreshold with a strict and with an inverted comparison.
WithinThresholdStrict(min_distance, threshold) == min_distance < threshold

WithinThresholdInverted(min_distance, threshold) == min_distance >= threshold

\* min_distance <= threshold
WithinThreshold(min_distance, threshold) == min_distance <= threshold

\* MatchStep refusing a set-2 detection that is already paired.
MatchStepDropShared(acc, i, coords1, coords2, threshold) ==
    LET distances == DistancesTo(coords1[i], coords2)
        min_idx == ArgMin(distances)
        min_distance == distances[min_idx]
        idx1 == RowIndex(i)
        idx2 == RowIndex(min_idx)
        cd == acc[1]
        withDist == [cd EXCEPT !.distances = Append(@, min_distance)]
    IN  IF WithinThreshold(min_distance, threshold) /\ idx2 \notin acc[2]
        THEN <<[withDist EXCEPT !.pairs = Append(@, <<idx1, idx2, min_distance>>)],
               acc[2] \cup {idx2}>>
        ELSE <<[withDist EXCEPT !.unpaired_1 = Append(@, idx1)], acc[2]>>

\* MatchStep keeping the distance of accepted pairs only.
MatchStepDistIfPaired(acc, i, coords1, coords2, threshold) ==
    LET distances == DistancesTo(coords1[i], coords2)
        min_idx == ArgMin(distances)
        min_distance == distances[min_idx]
        idx1 == RowIndex(i)
        idx2 == RowIndex(min_idx)
        cd == acc[1]
    IN  IF WithinThreshold(min_distance, threshold)
        THEN <<[cd EXCEPT !.distances = Append(@, min_distance),
                          !.pairs = Append(@, <<idx1, idx2, min_distance>>)],
               acc[2] \cup {idx2}>>
        ELSE <<[cd EXCEPT !.unpaired_1 = Append(@, idx1)], acc[2]>>

\* One iteration of the loop over set 1: acc is <<coloc_data, paired_2>>.
MatchStep(acc, i, coords1, coords2, threshold) ==
    LET distances == DistancesTo(coords1[i], coords2)
        min_idx == ArgMin(distances)
        min_distance == distances[min_idx]
        idx1 == RowIndex(i)
        idx2 == RowIndex(min_idx)
        cd == acc[1]
        withDist == [cd EXCEPT !.distances = Append(@, min_distance)]
    IN  IF WithinThreshold(min_distance, threshold)
        THEN <<[withDist EXCEPT !.pairs = Append(@, <<idx1, idx2, min_distance>>)],
               acc[2] \cup {idx2}>>
        ELSE <<[withDist EXCEPT !.unpaired_1 = Append(@, idx1)], acc[2]>>

RECURSIVE MatchLoop(_, _, _, _, _)
MatchLoop(acc, i, coords1, coords2, threshold) ==
    IF i > Len(coords1) THEN acc
    ELSE MatchLoop(MatchStep(acc, i, coords1, coords2, threshold), i + 1,
                   coords1, coords2, threshold)

\* [idx for idx in indices2 if idx not in paired_2]
RECURSIVE Unpaired2(_, _, _)
Unpaired2(n, j, paired_2) ==
    IF j > n THEN <<>>
    ELSE IF RowIndex(j) \in paired_2 THEN Unpaired2(n, j + 1, paired_2)
         ELSE <<RowIndex(j)>> \o Unpaired2(n, j + 1, paired_2)

find_colocalizations(dets1, dets2, thr) ==
    IF Len(dets1) = 0 \/ Len(dets2) = 0 THEN EmptyColocData
    ELSE LET acc == MatchLoop(<<EmptyColocData, {}>>, 1, dets1, dets2, thr)
         IN  [acc[1] EXCEPT !.unpaired_2 = Unpaired2(Len(dets2), 1, acc[2])]

\* ------------------------------------------ find_triple_colocalizations
Channels == {"WFA", "Agg", "PV"}

\* f"{ch1}_{ch2}": the key of a pairwise result (no channel name has a "_").
Key(ch1, ch2) == <<ch1, ch2>>

\* dict.get(k, default)
DictGet(d, k, default) == IF k \in DOMAIN d THEN d[k] ELSE default

\* section_results['colocalizations'].get(key, {}).get('pairs', [])
PairsOf(results, key) == DictGet(results.colocalizations, key, [pairs |-> <<>>]).pairs

\* {(idx1, idx2) for idx1, idx2, _ in pairs}
PairSet(pairs) == {<<pairs[i][1], pairs[i][2]>> : i \in 1..Len(pairs)}

\* The orders in which a set can be iterated.
Orderings(S) == {s \in [1..Cardinality(S) -> S] : Range(s) = S}

\* next((pv_idx for w_idx, pv_idx in wfa_pv_pairs if w_idx == wfa_idx), None);
\* at most one pair of wfa_pv_pairs starts with wfa_idx (UniquePartner below),
\* so the order in which the set is searched does not matter.
PvMatch(wfa_pv_pairs, wfa_idx) ==
    IF \E p \in wfa_pv_pairs : p[1] = wfa_idx
    THEN (CHOOSE p \in wfa_pv_pairs : p[1] = wfa_idx)[2]
    ELSE NoneVal

\* if pv_match:
Truthy(v) == v # NoneVal /\ v # 0

\* (agg_idx, pv_match) in agg_pv_pairs or (pv_match, agg_idx) in agg_pv_pairs
AggPvColocalized(agg_pv_pairs, agg_idx, pv_match) ==
    \/ <<agg_idx, pv_match>> \in agg_pv_pairs
    \/ <<pv_match, agg_idx>> \in agg_pv_pairs

\* The inner loop: the distance of the first pair equal to ch_pair in either
\* order, as a list of zero or one distance.
PairDistance(pairs, ch_pair) ==
    LET hits == {i \in 1..Len(pairs) :
                    \/ <<pairs[i][1], pairs[i][2]>> = ch_pair
                    \/ <<pairs[i][2], pairs[i][1]>> = ch_pair}
    IN  IF hits = {} THEN <<>>
        ELSE <<pairs[CHOOSE i \in hits : \A k \in hits : i <= k][3]>>

RECURSIVE SumSeq(_)
SumSeq(s) == IF s = <<>> THEN 0 ELSE Head(s) + SumSeq(Tail(s))

\* np.mean(distances) if distances else 0
Mean(distances) == IF Len(distances) = 0 THEN 0 ELSE SumSeq(distances) \div Len(distances)

\* The body of the loop for one (wfa_idx, agg_idx): the rows appended.
TripleRows(results, wfa_idx, agg_idx) ==
    LET pv_match == PvMatch(PairSet(PairsOf(results, Key("WFA", "PV"))), wfa_idx)
        agg_pv_pairs == PairSet(PairsOf(results, Key("Agg", "PV")))
    IN  IF Truthy(pv_match) /\ AggPvColocalized(agg_pv_pairs, agg_idx, pv_match)
        THEN LET distances ==
                    PairDistance(results.colocalizations[Key("WFA", "Agg")].pairs,
                                 <<wfa_idx, agg_idx>>)
                    \o PairDistance(results.colocalizations[Key("WFA", "PV")].pairs,
                                    <<wfa_idx, pv_match>>)
                    \o PairDistance(results.colocalizations[Key("Agg", "PV")].pairs,
                                    <<agg_idx, pv_match>>)
             IN  <<[wfa |-> wfa_idx, agg |-> agg_idx, pv |-> pv_match,
                    distances |-> distances, avg |-> Mean(distances)]>>
        ELSE <<>>

RECURSIVE TripleLoop(_, _, _)
TripleLoop(results, order, i) ==
    IF i > Len(order) THEN <<>>
    ELSE TripleRows(results, order[i][1], order[i][2]) \o TripleLoop(results, order, i + 1)

\* order: the order in which the set wfa_agg_pairs is iterated.
find_triple_colocalizations(results, order) == TripleLoop(results, order, 1)

\* ------------------------------------------- create_distribution_report
\* A list of raw distances is kept as the bag of its values, value |-> number of
\* occurrences: the histogram does not depend on the order of the list.
RECURSIVE BagSum(_, _)
BagSum(bag, S) ==
    IF S = {} THEN 0
    ELSE LET v == CHOOSE x \in S : TRUE IN bag[v] + BagSum(bag, S \ {v})

BagOfSeq(s) == [v \in Range(s) |-> Cardinality({i \in 1..Len(s) : s[i] = v})]
BagTotal(bag) == BagSum(bag, DOMAIN bag)

\* bin_size = 1: bins of 1 micron or of 1 pixel.
bin_size == 1

CeilDiv(a, b) == (a + b - 1) \div b

\* np.arange(0, max_dist + bin_size, bin_size) with the last edge rounded down.
ArangeFloor(max_dist) ==
    [k \in 1..(max_dist \div (bin_size * Scale) + 1) |-> (k - 1) * bin_size]

\* np.arange(0, max_dist + bin_size, bin_size): the edges 0, 1, ... below
\* max_dist + 1, ceil((stop - start) / step) of them; max_dist is fixed-point.
Arange(max_dist) ==
    [k \in 1..CeilDiv(max_dist + bin_size * Scale, bin_size * Scale) |-> (k - 1) * bin_size]

\* A histogram whose last bin is half-open like the others.
InBinHalfOpen(d, bins, k) ==
    bins[k] * Scale <= d /\ d < bins[k + 1] * Scale

\* np.histogram: bin k is [bins[k], bins[k+1]), and the last bin is closed.
InBin(d, bins, k) ==
    /\ bins[k] * Scale <= d
    /\ \/ d < bins[k + 1] * Scale
       \/ k = Len(bins) - 1 /\ d = bins[k + 1] * Scale

\* hist, _ = np.histogram(distances, bins=bins)
Histogram(distances, bins) ==
    [k \in 1..(Len(bins) - 1) |->
        BagSum(distances, {d \in DOMAIN distances : InBin(d, bins, k)})]

\* A running sum that leaves the bin itself out.
CumSumExclusive(hist) == [k \in 1..Len(hist) |-> SumSeq(SubSeq(hist, 1, k - 1))]

\* np.cumsum(hist)
CumSum(hist) == [k \in 1..Len(hist) |-> SumSeq(SubSeq(hist, 1, k))]

\* increase < 0.5 for increase = part / total_ch1 * 100
BelowHalfPercent(part, total_ch1) == part * 100 * 2 < total_ch1

\* The increase of the loop "for j in range(3)", as a count; i and j count from 0.
Increase(cumulative, i, j) ==
    IF cumulative[i - j] > 0
    THEN cumulative[i - j + 1] - cumulative[i - j]
    ELSE cumulative[i - j + 1]

\* A plateau test on the two most recent increases only.
PlateauAtTwo(cumulative, total_ch1, i) ==
    \A j \in 0..1 : BelowHalfPercent(Increase(cumulative, i, j), total_ch1)

\* all(inc < 0.5 for inc in recent_increases)
PlateauAt(cumulative, total_ch1, i) ==
    \A j \in 0..2 : BelowHalfPercent(Increase(cumulative, i, j), total_ch1)

\* The loop "for i in range(3, len(cumulative))" with its break.
PlateauIdx(cumulative, total_ch1, stop) ==
    LET hits == {i \in 3..(Len(cumulative) - 1) : PlateauAt(cumulative, total_ch1, i)}
    IN  IF stop /\ hits # {}
        THEN CHOOSE i \in hits : \A k \in hits : i <= k
        ELSE NoneVal

\* s[:n]
Prefix(s, n) == SubSeq(s, 1, n)

\* The value stored under coloc_key by create_distribution_report.
create_distribution_report(distances, max_dist, unit, total_ch1, stop) ==
    LET bins == Arange(max_dist)
        hist == Histogram(distances, bins)
        cumulative == CumSum(hist)
        plateau_idx == PlateauIdx(cumulative, total_ch1, stop)
    IN  [bins |-> IF Truthy(plateau_idx) THEN Prefix(bins, plateau_idx)
                  ELSE Prefix(bins, Len(bins) - 1),
         counts |-> IF Truthy(plateau_idx) THEN Prefix(hist, plateau_idx) ELSE hist,
         cumulative |-> IF Truthy(plateau_idx) THEN Prefix(cumulative, plateau_idx)
                        ELSE cumulative,
         unit |-> unit,
         plateau |-> plateau_idx]

\* ------------------------------------------- write_distance_distribution
\* f"{(part / total_count * 100):.1f}" as a number of tenths of a percent, rounded
\* to the nearest tenth and to the even one on a tie.
PercentTenths(part, total_count) ==
    LET q == (part * 1000) \div total_count
        r == (part * 1000) % total_count
    IN  IF 2 * r > total_count \/ (2 * r = total_count /\ q % 2 = 1) THEN q + 1 ELSE q

NoReport == [status |-> "none", rows |-> <<>>, stopped_at |-> NoneVal]

\* The report written for dist_data: its rows and the "Analysis stopped at" header
\* line, or the exception that leaves the function.
write_distance_distribution(dist_data) ==
    IF Len(dist_data.cumulative) = 0 THEN NoReport
    ELSE LET total_count == dist_data.cumulative[Len(dist_data.cumulative)]
             rows == [i \in 1..Len(dist_data.bins) |->
                        [bin_start |-> dist_data.bins[i],
                         bin_end |-> dist_data.bins[i] + 1,
                         count |-> dist_data.counts[i],
                         cumulative |-> dist_data.cumulative[i],
                         percent |-> IF total_count > 0
                                     THEN PercentTenths(dist_data.counts[i], total_count)
                                     ELSE 0,
                         cumulative_percent |->
                                     IF total_count > 0
                                     THEN PercentTenths(dist_data.cumulative[i], total_count)
                                     ELSE 0]]
         IN  IF Truthy(dist_data.plateau)
             THEN IF dist_data.plateau + 1 \in DOMAIN dist_data.bins
                  THEN [status |-> "written", rows |-> rows,
                        stopped_at |-> dist_data.bins[dist_data.plateau + 1]]
                  ELSE [status |-> "IndexError", rows |-> <<>>, stopped_at |-> NoneVal]
             ELSE [status |-> "written", rows |-> rows, stopped_at |-> NoneVal]

\* ---------------------------------------------------------------- state
VARIABLES
    detections1,        \* find_colocalizations: the first detection set
    detections2,        \* find_colocalizations: the second detection set
    calls,              \* the calls made: [threshold, coloc_data] of each
    selected_channels,  \* self.selected_channels
    section_data,       \* the scanned section: channels with a CSV, CSV contents
    threshold_data,     \* self.thresholds.get(section_key, {})
    section_results,    \* process_section: channels, detections, colocalizations
    triple_invoked,     \* write_section_outputs called find_triple_colocalizations
    triple_coloc,       \* its result
    config,             \* the attributes set by configure_additional_options
    pixel_size,         \* self.pixel_sizes.get(section_key)
    dist_reports,       \* the distance distribution reports written for the section
    hist_call,          \* create_distribution_report: distances, max_dist, total_ch1
    dist_data,          \* the histogram it stores
    dist_report,        \* write_distance_distribution: the report of dist_data
    section_key,        \* process_section: the key (mouse, section) of the section
    coloc_reports,      \* the pairwise colocalization reports written for the section
    all_data,           \* self.all_data: section key |-> section_results
    pixel_sizes,        \* self.pixel_sizes: section key |-> pixel size
    thresholds,         \* self.thresholds: section key |-> threshold data
    mice_sections,      \* scan_mice_sections(): the sections of the run, in order
    section_num,        \* process_all_sections: the number of sections started
    summary_rows,       \* generate_mouse_summary: the section rows
    master_rows,        \* generate_master_summary: the section rows
    totals,             \* calculate_mouse_totals: the TOTAL row
    folder,             \* scan_data_structure: the folder (item) under examination
    operations,         \* self.operations of the data organizer
    removed,            \* perform_organization: the folders removed
    pc                  \* the position of process_section, or of the single call

vars == <<detections1, detections2, calls, selected_channels, section_data,
          threshold_data, section_results, triple_invoked, triple_coloc, config,
          pixel_size, dist_reports, hist_call, dist_data, dist_report, section_key,
          coloc_reports, all_data, pixel_sizes, thresholds, mice_sections,
          section_num, summary_rows, master_rows, totals, folder, operations,
          removed, pc>>

matchVars == <<detections1, detections2, calls>>
sectionVars == <<selected_channels, section_data, threshold_data, section_results,
                 triple_invoked, triple_coloc, config, pixel_size, dist_reports,
                 section_key, coloc_reports, all_data, pc>>
histVars == <<hist_call, dist_data, dist_report>>
runVars == <<pixel_sizes, thresholds, mice_sections, section_num>>
summaryVars == <<summary_rows, master_rows, totals>>
organizerVars == <<folder, operations, removed>>
restVars == <<runVars, summaryVars, organizerVars>>

\* section_results without the key 'distance_distribution' has it empty here.
EmptyResults == [channels |-> <<>>, detections |-> <<>>, colocalizations |-> <<>>,
                 distance_distribution |-> <<>>]

\* configure_additional_options answered "n": no distance reports, and the
\* attributes that only the answer "y" sets are absent.
ConfigOff == [generate_distance_reports |-> FALSE, distance_report_mode |-> "",
              max_distance_microns |-> NoneVal, max_distance_pixels |-> NoneVal,
              stop_at_plateau |-> FALSE]

HistIdle ==
    /\ hist_call = <<>>
    /\ dist_data = <<>>
    /\ dist_report = NoReport

\* The key f"{mouse}/{section}" of a section.
SectionKey(mouse, section) == <<mouse, section>>

\* No run of several sections: one section M1/S1, nothing configured or stored.
RunIdle ==
    /\ pixel_sizes = <<>>
    /\ thresholds = <<>>
    /\ mice_sections = <<>>
    /\ section_num = 0

SummaryIdle ==
    /\ summary_rows = <<>>
    /\ master_rows = <<>>
    /\ totals = <<>>

\* self.operations of the data organizer after construction.
NoOperations == [moves |-> <<>>, deletions |-> <<>>, organized |-> <<>>]

OrganizerIdle ==
    /\ folder = <<>>
    /\ operations = NoOperations
    /\ removed = {}

RestIdle == RunIdle /\ SummaryIdle /\ OrganizerIdle

\* ------------------------------------------------ the matcher on its own
MatchPoints == (0..MaxCoord) \X (0..1)
MatchInputs == SeqsUpTo(MatchPoints, MaxLen)

\* Thresholds in fixed-point pixels: 0.5 and 1 pixel.
Thresholds == {Scale \div 2, Scale}

\* The scenario of the specification's testable properties.
ScenarioA == <<(<<0, 0>>), (<<10, 10>>)>>
ScenarioB == <<(<<0, 3>>), (<<20, 20>>)>>
ScenarioThreshold == 5 * Scale

\* The thresholds a pair of detection sets is matched at.
ThresholdsFor(dets1, dets2) ==
    IF dets1 = ScenarioA /\ dets2 = ScenarioB THEN {ScenarioThreshold} ELSE Thresholds

SectionIdle ==
    /\ selected_channels = <<>>
    /\ section_data = [channels |-> <<>>, csv |-> <<>>]
    /\ threshold_data = <<>>
    /\ section_results = EmptyResults
    /\ triple_invoked = FALSE
    /\ triple_coloc = <<>>
    /\ config = ConfigOff
    /\ pixel_size = NoneVal
    /\ dist_reports = <<>>
    /\ section_key = SectionKey("M1", "S1")
    /\ coloc_reports = {}
    /\ all_data = <<>>
    /\ pc = "idle"

InitMatch ==
    /\ \/ detections1 \in MatchInputs /\ detections2 \in MatchInputs
       \/ detections1 = ScenarioA /\ detections2 = ScenarioB
    /\ calls = <<>>
    /\ SectionIdle
    /\ HistIdle
    /\ RestIdle

\* One call find_colocalizations(detections1, detections2, t).
CallFindColocalizations(t) ==
    /\ pc = "idle"
    /\ calls = <<>>
    /\ calls' = <<[threshold |-> t,
                   coloc_data |-> find_colocalizations(detections1, detections2, t)]>>
    /\ UNCHANGED <<detections1, detections2>>
    /\ UNCHANGED sectionVars
    /\ UNCHANGED histVars
    /\ UNCHANGED restVars

NextMatch == \E t \in ThresholdsFor(detections1, detections2) : CallFindColocalizations(t)

SpecMatch == InitMatch /\ [][NextMatch]_vars

\* ------------------------------- create_distribution_report on its own
\* Raw distances in fixed-point units: inside the bins, on the edges 4.5 and 5,
\* between them, and far outside.
HistValues == {50, 150, 250, 350, 450, 490, 500, 900}

\* Every value occurs at most MaxCount times; the value of the first bin may
\* instead occur BulkCount times, which makes one detection less than 0.5%.
MaxCount == 1
BulkCount == 250

HistBags ==
    LET small == [HistValues -> 0..MaxCount]
    IN  small \cup {[b EXCEPT ![50] = BulkCount] : b \in small}

\* Maximum distances of 3, 4.5 and 5 units.
MaxDistOptions == {3 * Scale, 450, 5 * Scale}

\* The scenario of the specification: distances 0.5, 1.5, 1.5 and 4.9 with a
\* maximum distance of 5.
ScenarioDistances ==
    [v \in HistValues |-> IF v = 150 THEN 2 ELSE IF v \in {50, 490} THEN 1 ELSE 0]
ScenarioMaxDist == 5 * Scale

\* A section without pixel size under the mixed mode: the unit is pixels and
\* max_dist is self.max_distance_pixels. The list of distances is not empty
\* (generate_distance_distribution returns before the call otherwise), and
\* total_ch1 is the number of detections of the first channel, one per distance.
InitHist ==
    /\ detections1 = <<>>
    /\ detections2 = <<>>
    /\ calls = <<>>
    /\ selected_channels = <<>>
    /\ section_data = [channels |-> <<>>, csv |-> <<>>]
    /\ threshold_data = <<>>
    /\ section_results = EmptyResults
    /\ triple_invoked = FALSE
    /\ triple_coloc = <<>>
    /\ pixel_size = NoneVal
    /\ dist_reports = <<>>
    /\ section_key = SectionKey("M1", "S1")
    /\ coloc_reports = {}
    /\ all_data = <<>>
    /\ RestIdle
    /\ \E bag \in HistBags \cup {ScenarioDistances} :
       \E m \in MaxDistOptions :
          /\ BagTotal(bag) > 0
          /\ hist_call = [distances |-> bag, max_dist |-> m, total_ch1 |-> BagTotal(bag)]
          /\ \E stop \in BOOLEAN :
                config = [generate_distance_reports |-> TRUE, distance_report_mode |-> "3",
                          max_distance_microns |-> NoneVal, max_distance_pixels |-> m,
                          stop_at_plateau |-> stop]
    /\ dist_data = <<>>
    /\ dist_report = NoReport
    /\ pc = "hist_start"

\* One call create_distribution_report(section_results, coloc_key, distances,
\* max_dist, 'pixels').
CreateDistributionReport ==
    /\ pc = "hist_start"
    /\ dist_data' = create_distribution_report(hist_call.distances, hist_call.max_dist,
                                               "pixels", hist_call.total_ch1,
                                               config.stop_at_plateau)
    /\ pc' = "hist_created"
    /\ UNCHANGED <<hist_call, dist_report>>
    /\ UNCHANGED <<selected_channels, section_data, threshold_data, section_results,
                   triple_invoked, triple_coloc, config, pixel_size, dist_reports,
                   section_key, coloc_reports, all_data>>
    /\ UNCHANGED matchVars
    /\ UNCHANGED restVars

\* One call write_distance_distribution(csv_dir, coloc_key, dist_data).
WriteDistanceDistribution ==
    /\ pc = "hist_created"
    /\ dist_report' = write_distance_distribution(dist_data)
    /\ pc' = IF dist_report'.status = "IndexError" THEN "hist_raised" ELSE "hist_written"
    /\ UNCHANGED <<hist_call, dist_data>>
    /\ UNCHANGED <<selected_channels, section_data, threshold_data, section_results,
                   triple_invoked, triple_coloc, config, pixel_size, dist_reports,
                   section_key, coloc_reports, all_data>>
    /\ UNCHANGED matchVars
    /\ UNCHANGED restVars

NextHist == CreateDistributionReport \/ WriteDistanceDistribution

SpecHist == InitHist /\ [][NextHist]_vars

\* ----------------------------------------------------- process_section
SectionPoints == (0..SecMaxCoord) \X {0}

\* The CSV files with n detections.
Files(n) == {[ok |-> TRUE, rows |-> d] : d \in [1..n -> SectionPoints]}

\* The contents a channel's CSV file can have when at most budget detections
\* are left for the section; a channel without a file has no content.
FileChoices(present, budget) ==
    IF present THEN {LoadError} \cup UNION {Files(n) : n \in 0..budget}
    ELSE {LoadError}

\* The threshold used when the section has no configured pixel threshold.
DefaultThresholdPx == 10

\* select_channels: 'all' gives the available channels in the order WFA, Agg, PV;
\* typed names are upper-cased, so only WFA and PV can be typed, in any order.
SelectedOptions ==
    {<<"WFA", "Agg", "PV">>, <<"WFA", "Agg">>, <<"WFA", "PV">>, <<"Agg", "PV">>,
     <<"PV", "WFA">>}

\* The non-empty subsequences of s (the selected channels that have a CSV file).
SubSeqs(s) ==
    {SelectSeq(s, LAMBDA c : c \in keep) : keep \in (SUBSET Range(s)) \ {{}}}

\* self.thresholds.get(section_key, {}): a pixel threshold of 0.5 or 1 pixel, or none.
ThresholdOptions == {[pixels |-> Scale \div 2], [pixels |-> Scale], <<>>}

MatchIdle ==
    /\ detections1 = <<>>
    /\ detections2 = <<>>
    /\ calls = <<>>

Init ==
    /\ MatchIdle
    /\ HistIdle
    /\ RestIdle
    /\ section_key = SectionKey("M1", "S1")
    /\ coloc_reports = {}
    /\ all_data = <<>>
    /\ config = ConfigOff
    /\ pixel_size = NoneVal
    /\ dist_reports = <<>>
    /\ selected_channels \in SelectedOptions
    /\ \E chs \in SubSeqs(selected_channels) :
         \E w \in FileChoices("WFA" \in Range(chs), SecMaxTotal) :
         \E a \in FileChoices("Agg" \in Range(chs), SecMaxTotal - Len(w.rows)) :
         \E p \in FileChoices("PV" \in Range(chs), SecMaxTotal - Len(w.rows) - Len(a.rows)) :
            section_data =
                [channels |-> chs,
                 csv |-> [c \in Range(chs) |->
                            IF c = "WFA" THEN w ELSE IF c = "Agg" THEN a ELSE p]]
    /\ threshold_data \in ThresholdOptions
    /\ section_results = EmptyResults
    /\ triple_invoked = FALSE
    /\ triple_coloc = <<>>
    /\ pc = "start"

\* The keys of a dictionary filled in the order of s: a key assigned again keeps
\* its first position.
RECURSIVE DictKeys(_)
DictKeys(s) ==
    IF s = <<>> THEN <<>>
    ELSE LET front == DictKeys(SubSeq(s, 1, Len(s) - 1))
         IN  IF s[Len(s)] \in Range(front) THEN front ELSE Append(front, s[Len(s)])

\* The loop "for channel in section_data['channels']" with load_localizations:
\* section_results['channels'] is a dictionary keyed by the channel.
LoadLocalizations ==
    /\ pc = "start"
    /\ LET loaded == DictKeys(SelectSeq(section_data.channels,
                                        LAMBDA c : Loads(section_data.csv[c])))
       IN  section_results' =
               [section_results EXCEPT
                    !.channels = loaded,
                    !.detections = [c \in Range(loaded) |-> section_data.csv[c].rows]]
    /\ pc' = "loaded"
    /\ UNCHANGED <<selected_channels, section_data, threshold_data, triple_invoked, triple_coloc>>
    /\ UNCHANGED <<config, pixel_size, dist_reports, section_key, coloc_reports, all_data>>
    /\ UNCHANGED matchVars
    /\ UNCHANGED histVars
    /\ UNCHANGED restVars

\* The pair with the channel selected later put first.
OrderedPairReversed(present, i, j) ==
    IF IndexOf(selected_channels, present[i]) > IndexOf(selected_channels, present[j])
    THEN <<present[i], present[j]>>
    ELSE <<present[j], present[i]>>

\* The channel pair of positions i < j of channels_present, ordered consistently.
OrderedPair(present, i, j) ==
    IF IndexOf(selected_channels, present[i]) > IndexOf(selected_channels, present[j])
    THEN <<present[j], present[i]>>
    ELSE <<present[i], present[j]>>

\* The keys of section_results['colocalizations'] in insertion order: the order
\* of the two nested loops over channels_present.
ColocKeys(present) ==
    LET n == Len(present)
        S == {ij \in (1..n) \X (1..n) : ij[1] < ij[2]}
        Before(q, ij) == q[1] < ij[1] \/ (q[1] = ij[1] /\ q[2] < ij[2])
        At(k) == CHOOSE ij \in S : Cardinality({q \in S : Before(q, ij)}) = k - 1
    IN  [k \in 1..Cardinality(S) |-> Key(OrderedPair(present, At(k)[1], At(k)[2])[1],
                                         OrderedPair(present, At(k)[1], At(k)[2])[2])]

\* threshold_data.get('pixels', 10): the threshold passed to find_colocalizations.
PixelThreshold(data) ==
    IF "pixels" \in DOMAIN data THEN data.pixels ELSE DefaultThresholdPx * Scale

\* The two nested loops over channels_present; calls lists the calls of
\* find_colocalizations in the order they are made.
ColocalizationAnalysis ==
    /\ pc = "loaded"
    /\ LET present == section_results.channels
           keys == IF Len(present) >= 2 THEN ColocKeys(present) ELSE <<>>
           threshold == PixelThreshold(threshold_data)
           Result(k) == find_colocalizations(section_results.detections[k[1]],
                                             section_results.detections[k[2]],
                                             threshold)
       IN  /\ section_results' =
               [section_results EXCEPT
                    !.colocalizations = [k \in Range(keys) |-> Result(k)]]
           /\ calls' = [i \in 1..Len(keys) |->
                          [threshold |-> threshold, coloc_data |-> Result(keys[i])]]
    /\ pc' = "analyzed"
    /\ UNCHANGED <<selected_channels, section_data, threshold_data, triple_invoked, triple_coloc>>
    /\ UNCHANGED <<config, pixel_size, dist_reports, section_key, coloc_reports, all_data>>
    /\ UNCHANGED <<detections1, detections2>>
    /\ UNCHANGED histVars
    /\ UNCHANGED restVars

\* getattr(self, name, default) of an attribute that may be absent.
GetAttr(value, default) == IF value = NoneVal THEN default ELSE value

DefaultMaxMicrons == 30
DefaultMaxPixels == 50

\* create_distribution_report as called for coloc_key: the dictionary it stores.
StoreDistribution(results, coloc_key, distances, max_dist, unit, cfg) ==
    [results EXCEPT !.distance_distribution =
        [k \in {coloc_key} |->
            create_distribution_report(BagOfSeq(distances), max_dist, unit,
                                       Len(results.detections[coloc_key[1]]),
                                       cfg.stop_at_plateau)]]

\* generate_distance_distribution(section_results, coloc_key): section_results
\* after the call. distance_report_mode is set whenever reports are generated.
generate_distance_distribution(results, coloc_key, cfg, px_size) ==
    LET distances == results.colocalizations[coloc_key].distances
    IN  IF distances = <<>> THEN results
        ELSE IF Truthy(px_size)
        THEN IF cfg.distance_report_mode \in {"1", "3"}
             THEN StoreDistribution(results, coloc_key,
                      [i \in 1..Len(distances) |-> (distances[i] * px_size) \div Scale],
                      GetAttr(cfg.max_distance_microns, DefaultMaxMicrons * Scale),
                      "um", cfg)
             ELSE results
        ELSE StoreDistribution(results, coloc_key, distances,
                 GetAttr(cfg.max_distance_pixels, DefaultMaxPixels * Scale),
                 "pixels", cfg)

RECURSIVE DistributionLoop(_, _, _, _, _)
DistributionLoop(results, keys, i, cfg, px_size) ==
    IF i > Len(keys) THEN results
    ELSE DistributionLoop(generate_distance_distribution(results, keys[i], cfg, px_size),
                          keys, i + 1, cfg, px_size)

\* "Generate distance distribution if requested": the loop over the items of
\* section_results['colocalizations'].
GenerateDistanceDistributions ==
    /\ pc = "analyzed"
    /\ section_results' =
          IF config.generate_distance_reports /\ Len(section_results.channels) >= 2
          THEN DistributionLoop(section_results, ColocKeys(section_results.channels), 1,
                                config, pixel_size)
          ELSE section_results
    /\ pc' = "distributed"
    /\ UNCHANGED <<selected_channels, section_data, threshold_data, triple_invoked, triple_coloc>>
    /\ UNCHANGED <<config, pixel_size, dist_reports, section_key, coloc_reports, all_data>>
    /\ UNCHANGED matchVars
    /\ UNCHANGED histVars
    /\ UNCHANGED restVars

\* coloc_file_mapping: the keys write_section_outputs writes a pairwise report for.
coloc_file_mapping == <<Key("WFA", "Agg"), Key("WFA", "PV"), Key("Agg", "PV")>>

\* The pairwise results of the section that are in coloc_file_mapping.
ReportedKeys(results) ==
    {k \in Range(coloc_file_mapping) : k \in DOMAIN results.colocalizations}

\* generate_colocalization_header reads threshold_data['pixels']: a KeyError when
\* the section has no configured threshold.
HeaderRaises(results, data) ==
    ReportedKeys(results) # {} /\ "pixels" \notin DOMAIN data

\* write_section_outputs: the pairwise reports (steps 5-7), the triple resolution
\* when all 3 channels are loaded (step 8), then the distance distributions that
\* were generated. An exception is caught nowhere: it leaves
\* write_section_outputs and process_section.
WriteSectionOutputs ==
    /\ pc = "distributed"
    /\ IF HeaderRaises(section_results, threshold_data)
       THEN /\ pc' = "raised"
            /\ UNCHANGED <<coloc_reports, triple_invoked, triple_coloc, dist_reports>>
       ELSE /\ coloc_reports' = ReportedKeys(section_results)
            /\ IF Channels \subseteq Range(section_results.channels)
               THEN /\ triple_invoked' = TRUE
                    /\ \E order \in Orderings(PairSet(PairsOf(section_results, Key("WFA", "Agg")))) :
                          triple_coloc' = find_triple_colocalizations(section_results, order)
               ELSE UNCHANGED <<triple_invoked, triple_coloc>>
            /\ dist_reports' = [k \in DOMAIN section_results.distance_distribution |->
                                  write_distance_distribution(section_results.distance_distribution[k])]
            /\ pc' = IF \E k \in DOMAIN dist_reports' : dist_reports'[k].status = "IndexError"
                     THEN "raised" ELSE "written"
    /\ UNCHANGED <<selected_channels, section_data, threshold_data, section_results>>
    /\ UNCHANGED <<config, pixel_size, section_key, all_data>>
    /\ UNCHANGED matchVars
    /\ UNCHANGED histVars
    /\ UNCHANGED restVars

\* The store of the results made before the outputs are written.
RecordResultsEarly ==
    /\ pc = "distributed"
    /\ section_key \notin DOMAIN all_data
    /\ all_data' = [k \in DOMAIN all_data \cup {section_key} |->
                      IF k = section_key THEN section_results ELSE all_data[k]]
    /\ UNCHANGED <<selected_channels, section_data, threshold_data, section_results,
                   triple_invoked, triple_coloc, config, pixel_size, dist_reports,
                   section_key, coloc_reports, pc>>
    /\ UNCHANGED matchVars
    /\ UNCHANGED histVars
    /\ UNCHANGED restVars

\* self.all_data[section_key] = section_results, the last statement of
\* process_section with an effect.
RecordResults ==
    /\ pc = "written"
    /\ all_data' = [k \in DOMAIN all_data \cup {section_key} |->
                      IF k = section_key THEN section_results ELSE all_data[k]]
    /\ pc' = "recorded"
    /\ UNCHANGED <<selected_channels, section_data, threshold_data, section_results,
                   triple_invoked, triple_coloc, config, pixel_size, dist_reports,
                   section_key, coloc_reports>>
    /\ UNCHANGED matchVars
    /\ UNCHANGED histVars
    /\ UNCHANGED restVars

Next ==
    \/ LoadLocalizations
    \/ ColocalizationAnalysis
    \/ GenerateDistanceDistributions
    \/ WriteSectionOutputs
    \/ RecordResults

Spec == Init /\ [][Next]_vars

\* ------------------------- process_section with distance reports requested
\* A pixel size of 0.5 micron per pixel, or none.
PixelSizes == {NoneVal, Scale \div 2}
ReportModes == {"1", "2", "3"}
\* The maximum distance entered at either prompt: 3 units.
ReportMaxDist == 3 * Scale

\* configure_additional_options answered "y", for a run of one mouse: the prompt
\* for max_distance_microns appears when the mouse has a pixel size and the mode
\* is 1 or 3, the prompt for max_distance_pixels when it has none and the mode is
\* 2 or 3.
ConfigOn(mode, px_size, stop) ==
    [generate_distance_reports |-> TRUE,
     distance_report_mode |-> mode,
     max_distance_microns |-> IF Truthy(px_size) /\ mode \in {"1", "3"}
                              THEN ReportMaxDist ELSE NoneVal,
     max_distance_pixels |-> IF ~Truthy(px_size) /\ mode \in {"2", "3"}
                             THEN ReportMaxDist ELSE NoneVal,
     stop_at_plateau |-> stop]

\* The section has at most RepMaxTotal detections over its channels.
RepMaxTotal == 3

\* All three channels selected, a configured threshold of 10 pixels, distance
\* reports on.
InitReports ==
    /\ MatchIdle
    /\ HistIdle
    /\ RestIdle
    /\ section_key = SectionKey("M1", "S1")
    /\ coloc_reports = {}
    /\ all_data = <<>>
    /\ selected_channels = <<"WFA", "Agg", "PV">>
    /\ \E chs \in SubSeqs(selected_channels) :
         \E w \in FileChoices("WFA" \in Range(chs), RepMaxTotal) :
         \E a \in FileChoices("Agg" \in Range(chs), RepMaxTotal - Len(w.rows)) :
         \E p \in FileChoices("PV" \in Range(chs), RepMaxTotal - Len(w.rows) - Len(a.rows)) :
            section_data =
                [channels |-> chs,
                 csv |-> [c \in Range(chs) |->
                            IF c = "WFA" THEN w ELSE IF c = "Agg" THEN a ELSE p]]
    /\ threshold_data = [pixels |-> DefaultThresholdPx * Scale]
    /\ section_results = EmptyResults
    /\ triple_invoked = FALSE
    /\ triple_coloc = <<>>
    /\ pixel_size \in PixelSizes
    /\ \E mode \in ReportModes, stop \in BOOLEAN :
          config = ConfigOn(mode, pixel_size, stop)
    /\ dist_reports = <<>>
    /\ pc = "start"

SpecReports == InitReports /\ [][Next]_vars

\* ------------------------------ process_section under any channel selection
\* select_channels accepts any list of two or more available names; the typed
\* response is upper-cased, so a typed list holds WFA and PV only, in any order
\* and with repetitions.
PairSelections ==
    SelectedOptions \cup {<<"WFA", "WFA">>, <<"PV", "WFA", "PV">>, <<"WFA", "PV", "WFA">>}

\* The detections a CSV file can hold: load_localizations reads the X and Y
\* columns as they are, so a coordinate can be negative.
PairPoints == {<<0, 0>>, <<1, 0>>, <<-1, 0>>}
PairFiles ==
    {LoadError, [ok |-> TRUE, rows |-> <<>>]}
        \cup {[ok |-> TRUE, rows |-> <<pt>>] : pt \in PairPoints}
        \cup {[ok |-> TRUE, rows |-> <<(<<0, 0>>), pt>>] : pt \in PairPoints}

\* scan_mice_sections: the section lists a selected channel once for every time
\* it was selected, when its CSV file exists.
InitPairs ==
    /\ MatchIdle
    /\ HistIdle
    /\ RestIdle
    /\ section_key = SectionKey("M1", "S1")
    /\ coloc_reports = {}
    /\ all_data = <<>>
    /\ config = ConfigOff
    /\ pixel_size = NoneVal
    /\ dist_reports = <<>>
    /\ selected_channels \in PairSelections
    /\ \E exists \in (SUBSET Range(selected_channels)) \ {{}} :
       \E f \in [exists -> PairFiles] :
          section_data = [channels |-> SelectSeq(selected_channels, LAMBDA c : c \in exists),
                          csv |-> f]
    /\ threshold_data \in ThresholdOptions
    /\ section_results = EmptyResults
    /\ triple_invoked = FALSE
    /\ triple_coloc = <<>>
    /\ pc = "start"

SpecPairs == InitPairs /\ [][Next]_vars

\* ------------------------------------------- the run over all sections
\* One mouse with two sections; every selected channel has a CSV file that fails
\* to load, is empty, or holds one detection.
RunMouse == "M1"
RunSectionNames == <<"S1", "S2">>
RunKey(i) == SectionKey(RunMouse, RunSectionNames[i])
RunKeys == {RunKey(i) : i \in 1..Len(RunSectionNames)}
RunFiles == {LoadError, [ok |-> TRUE, rows |-> <<>>], [ok |-> TRUE, rows |-> <<(<<0, 0>>)>>]}
RunSections(selected) ==
    {[channels |-> selected, csv |-> f] : f \in [Range(selected) -> RunFiles]}

\* get_pixel_size_input returns a size only when it is > 0: 0.5 micron per pixel.
TypedSizes == {Scale \div 2}
\* load_pixel_size_config stores what the JSON file holds.
LoadedSizes == {-(Scale \div 2), 0, Scale \div 2}
\* The thresholds typed at the two prompts of configure_thresholds: 0.5 micron,
\* 1 pixel.
MicronThreshold == Scale \div 2
TypedPixelThreshold == Scale

InitRun ==
    /\ MatchIdle
    /\ HistIdle
    /\ SummaryIdle
    /\ OrganizerIdle
    /\ config = ConfigOff
    /\ selected_channels \in SelectedOptions
    /\ mice_sections \in [1..Len(RunSectionNames) -> RunSections(selected_channels)]
    /\ pixel_sizes = <<>>
    /\ thresholds = <<>>
    /\ section_num = 0
    /\ section_key = RunKey(1)
    /\ section_data = [channels |-> <<>>, csv |-> <<>>]
    /\ threshold_data = <<>>
    /\ pixel_size = NoneVal
    /\ section_results = EmptyResults
    /\ triple_invoked = FALSE
    /\ triple_coloc = <<>>
    /\ dist_reports = <<>>
    /\ coloc_reports = {}
    /\ all_data = <<>>
    /\ pc = "configure_pixel_sizes"

runFrame == <<selected_channels, section_data, threshold_data, section_results,
              triple_invoked, triple_coloc, config, pixel_size, dist_reports,
              section_key, coloc_reports, all_data>>

\* configure_pixel_sizes: sizes typed for some sections (choices 1 to 4), or a
\* saved configuration loaded as it is (choice 5).
ConfigurePixelSizes ==
    /\ pc = "configure_pixel_sizes"
    /\ \E keys \in SUBSET RunKeys :
          \/ pixel_sizes' \in [keys -> TypedSizes]
          \/ pixel_sizes' \in [keys -> LoadedSizes]
    /\ pc' = "configure_thresholds"
    /\ UNCHANGED <<thresholds, mice_sections, section_num>>
    /\ UNCHANGED runFrame
    /\ UNCHANGED matchVars
    /\ UNCHANGED histVars
    /\ UNCHANGED summaryVars
    /\ UNCHANGED organizerVars

\* micron_threshold / pixel_size, for a pixel size other than 0.
MicronsToPixels(micron_threshold, size) ==
    IF size > 0 THEN (micron_threshold * Scale) \div size
    ELSE -((micron_threshold * Scale) \div (-size))

\* "Convert to pixels for each mouse/section": the thresholds after the sections
\* i.. of the mouse, and whether the division raised ZeroDivisionError.
RECURSIVE ConvertLoop(_, _, _)
ConvertLoop(stored, sizes, i) ==
    IF i > Len(RunSectionNames) THEN [thresholds |-> stored, raised |-> FALSE]
    ELSE IF RunKey(i) \notin DOMAIN sizes THEN ConvertLoop(stored, sizes, i + 1)
    ELSE IF sizes[RunKey(i)] = 0 THEN [thresholds |-> stored, raised |-> TRUE]
    ELSE ConvertLoop(
            [k \in DOMAIN stored \cup {RunKey(i)} |->
                IF k = RunKey(i)
                THEN [microns |-> MicronThreshold,
                      pixels |-> MicronsToPixels(MicronThreshold, sizes[k]),
                      pixel_size |-> sizes[k]]
                ELSE stored[k]],
            sizes, i + 1)

\* configure_thresholds for the mouse: with a pixel size on any of its sections
\* the micron threshold is converted for the sections that have one; without,
\* the pixel threshold is stored for all its sections.
ConfigureThresholds ==
    /\ pc = "configure_thresholds"
    /\ IF \E k \in RunKeys : k \in DOMAIN pixel_sizes
       THEN LET r == ConvertLoop(thresholds, pixel_sizes, 1)
            IN  /\ thresholds' = r.thresholds
                /\ pc' = IF r.raised THEN "ZeroDivisionError" ELSE "process"
       ELSE /\ thresholds' = [k \in RunKeys |->
                                [microns |-> NoneVal, pixels |-> TypedPixelThreshold,
                                 pixel_size |-> NoneVal]]
            /\ pc' = "process"
    /\ UNCHANGED <<pixel_sizes, mice_sections, section_num>>
    /\ UNCHANGED runFrame
    /\ UNCHANGED matchVars
    /\ UNCHANGED histVars
    /\ UNCHANGED summaryVars
    /\ UNCHANGED organizerVars

\* process_all_sections: the next iteration of the loop over the sections, up to
\* the first statement of process_section. An exception of process_section is
\* caught nowhere, so after one the loop is not resumed.
StartSection ==
    /\ pc \in {"process", "recorded"}
    /\ section_num < Len(mice_sections)
    /\ section_num' = section_num + 1
    /\ section_key' = RunKey(section_num')
    /\ section_data' = mice_sections[section_num']
    /\ pixel_size' = DictGet(pixel_sizes, section_key', NoneVal)
    /\ threshold_data' = DictGet(thresholds, section_key', <<>>)
    /\ section_results' = EmptyResults
    /\ calls' = <<>>
    /\ triple_invoked' = FALSE
    /\ triple_coloc' = <<>>
    /\ dist_reports' = <<>>
    /\ coloc_reports' = {}
    /\ pc' = "start"
    /\ UNCHANGED <<selected_channels, config, all_data, detections1, detections2>>
    /\ UNCHANGED <<pixel_sizes, thresholds, mice_sections>>
    /\ UNCHANGED histVars
    /\ UNCHANGED summaryVars
    /\ UNCHANGED organizerVars

\* ------------------------------------------------------ generate_summaries
\* The 'N/A' of the summary tables.
NA == NoneVal

\* section_data['channels'][channel]['count'], or 'N/A'.
ChannelCount(section, channel) ==
    IF channel \in Range(section.channels) THEN Len(section.detections[channel]) ELSE NA

\* len(section_data['colocalizations'][coloc_key]['pairs']), or 'N/A'.
ColocCount(section, coloc_key) ==
    IF coloc_key \in DOMAIN section.colocalizations
    THEN Len(section.colocalizations[coloc_key].pairs)
    ELSE NA

\* len(self.find_triple_colocalizations(section_data)) when all three channels
\* are loaded, or 'N/A'.
TripleCount(section, order) ==
    IF Channels \subseteq Range(section.channels)
    THEN Len(find_triple_colocalizations(section, order))
    ELSE NA

\* coloc_pairs of generate_mouse_summary: the key looked up for each column.
coloc_pairs ==
    (Key("WFA", "Agg") :> "WFA-Agg Coloc") @@ (Key("WFA", "PV") :> "WFA-PV Coloc")
        @@ (Key("Agg", "PV") :> "Agg-PV Coloc")

\* The row of generate_mouse_summary for one section: its summed columns. The
\* images of the section are not readable, so section_data['areas'] is empty.
MouseSummaryRow(section, order) ==
    ("WFA Count" :> ChannelCount(section, "WFA"))
        @@ ("Agg Count" :> ChannelCount(section, "Agg"))
        @@ ("PV Count" :> ChannelCount(section, "PV"))
        @@ ("Area (px)" :> NA)
        @@ [col \in {coloc_pairs[k] : k \in DOMAIN coloc_pairs} |->
               ColocCount(section, CHOOSE k \in DOMAIN coloc_pairs : coloc_pairs[k] = col)]
        @@ ("Triple" :> TripleCount(section, order))

\* The list of (coloc_key, display) of generate_master_summary.
master_pairs ==
    (Key("WFA", "Agg") :> "WFA-Agg") @@ (Key("WFA", "PV") :> "WFA-PV")
        @@ (Key("Agg", "PV") :> "Agg-PV")

\* The row of the complete data table of generate_master_summary.
MasterSummaryRow(section, order) ==
    ("WFA" :> ChannelCount(section, "WFA"))
        @@ ("Agg" :> ChannelCount(section, "Agg"))
        @@ ("PV" :> ChannelCount(section, "PV"))
        @@ ("Area(px)" :> NA)
        @@ [col \in {master_pairs[k] : k \in DOMAIN master_pairs} |->
               ColocCount(section, CHOOSE k \in DOMAIN master_pairs : master_pairs[k] = col)]
        @@ ("Triple" :> TripleCount(section, order))

sum_columns ==
    <<"WFA Count", "Agg Count", "PV Count", "Area (px)",
      "WFA-Agg Coloc", "WFA-PV Coloc", "Agg-PV Coloc", "Triple">>

\* The sum of column col over rows, skipping the rows without a number in it;
\* 'N/A' when no row has one.
ColumnTotal(rows, col) ==
    LET HasData(i) == col \in DOMAIN rows[i] /\ rows[i][col] # NA
    IN  IF \E i \in 1..Len(rows) : HasData(i)
        THEN SumSeq([i \in 1..Len(rows) |-> IF HasData(i) THEN rows[i][col] ELSE 0])
        ELSE NA

\* calculate_mouse_totals(summary_rows): the loop runs over summary_rows[:-1].
calculate_mouse_totals(rows) ==
    [col \in Range(sum_columns) |-> ColumnTotal(SubSeq(rows, 1, Len(rows) - 1), col)]

\* The recorded sections of the mouse, sorted by section name.
MouseSections(data) ==
    LET recorded == SelectSeq([i \in 1..Len(RunSectionNames) |-> RunKey(i)],
                              LAMBDA k : k \in DOMAIN data)
    IN  [i \in 1..Len(recorded) |-> data[recorded[i]]]

\* The orders in which the set of WFA-Agg pairs of each section is iterated.
TripleOrders(sections) ==
    {o \in [1..Len(sections) ->
               UNION {Orderings(PairSet(PairsOf(sections[i], Key("WFA", "Agg")))) :
                         i \in 1..Len(sections)}] :
        \A i \in 1..Len(sections) :
            o[i] \in Orderings(PairSet(PairsOf(sections[i], Key("WFA", "Agg"))))}

\* generate_summaries after process_all_sections has returned: the rows of the
\* mouse summary with the TOTAL row appended, and the rows of the master summary.
GenerateSummaries ==
    /\ pc = "recorded"
    /\ section_num = Len(mice_sections)
    /\ LET sections == MouseSections(all_data)
       IN  \E o \in TripleOrders(sections) :
              LET rows == [i \in 1..Len(sections) |-> MouseSummaryRow(sections[i], o[i])]
              IN  /\ totals' = calculate_mouse_totals(rows)
                  /\ summary_rows' = Append(rows, totals')
                  /\ master_rows' = [i \in 1..Len(sections) |->
                                        MasterSummaryRow(sections[i], o[i])]
    /\ pc' = "summarized"
    /\ UNCHANGED runVars
    /\ UNCHANGED runFrame
    /\ UNCHANGED matchVars
    /\ UNCHANGED histVars
    /\ UNCHANGED organizerVars

NextRun ==
    \/ ConfigurePixelSizes
    \/ ConfigureThresholds
    \/ StartSection
    \/ Next
    \/ GenerateSummaries

SpecRun == InitRun /\ [][NextRun]_vars

\* ------------------------------------------------------ the data organizer
\* One folder (item) of a Mouse_* directory. Its direct files by kind: a .csv
\* file, a file with "_predictions" in its name, a .txt file, a .png file, a
\* .tif file. Its subfolders by kind: <name>_predictions with prediction files,
\* a subfolder holding a .csv file, an empty subfolder.
OrgFileKinds == {"csv", "predictions_file", "txt", "png", "tif"}
OrgSubdirKinds == {"predictions_dir", "csv_dir", "empty_dir"}
OrgFolderName == "WFA_1L"

\* safe_extensions, among the file kinds.
safe_extensions == {"txt"}

InitOrganizer ==
    /\ MatchIdle
    /\ HistIdle
    /\ RunIdle
    /\ SummaryIdle
    /\ selected_channels = <<>>
    /\ section_data = [channels |-> <<>>, csv |-> <<>>]
    /\ threshold_data = <<>>
    /\ section_results = EmptyResults
    /\ triple_invoked = FALSE
    /\ triple_coloc = <<>>
    /\ config = ConfigOff
    /\ pixel_size = NoneVal
    /\ dist_reports = <<>>
    /\ section_key = SectionKey("M1", "S1")
    /\ coloc_reports = {}
    /\ all_data = <<>>
    /\ folder \in [name : {OrgFolderName}, files : SUBSET OrgFileKinds,
                   subdirs : SUBSET OrgSubdirKinds, tif_outside : BOOLEAN]
    /\ operations = NoOperations
    /\ removed = {}
    /\ pc = "scan"

\* The body of "for item in items" of scan_data_structure for a directory: the
\* operations it appends.
ScanItem(item) ==
    LET tif_inside == "tif" \in item.files
        has_csv == "csv" \in item.files
        has_preds == "predictions_file" \in item.files
        folder_contents == item.files \cup item.subdirs
        has_unsafe == \E f \in item.files : f \notin safe_extensions
    IN  IF tif_inside THEN [NoOperations EXCEPT !.organized = <<item.name>>]
        ELSE IF item.tif_outside THEN [NoOperations EXCEPT !.moves = <<item.name>>]
        ELSE IF has_csv \/ has_preds THEN NoOperations
        ELSE IF folder_contents # {} /\ has_unsafe THEN NoOperations
        ELSE [NoOperations EXCEPT !.deletions = <<item.name>>]

ScanDataStructure ==
    /\ pc = "scan"
    /\ operations' = ScanItem(folder)
    /\ pc' = "scanned"
    /\ UNCHANGED <<folder, removed>>
    /\ UNCHANGED <<selected_channels, section_data, threshold_data, section_results,
                   triple_invoked, triple_coloc, config, pixel_size, dist_reports,
                   section_key, coloc_reports, all_data>>
    /\ UNCHANGED matchVars
    /\ UNCHANGED histVars
    /\ UNCHANGED runVars
    /\ UNCHANGED summaryVars

\* perform_organization: nothing under --dry-run; otherwise the moves, then
\* rmtree of every folder scheduled for deletion.
PerformOrganization ==
    /\ pc = "scanned"
    /\ \E dry_run \in BOOLEAN :
          IF dry_run THEN UNCHANGED <<folder, removed>>
          ELSE /\ folder' = IF operations.moves # <<>>
                            THEN [folder EXCEPT !.files = @ \cup {"tif"},
                                                !.tif_outside = FALSE]
                            ELSE folder
               /\ removed' = Range(operations.deletions)
    /\ pc' = "organized"
    /\ UNCHANGED operations
    /\ UNCHANGED <<selected_channels, section_data, threshold_data, section_results,
                   triple_invoked, triple_coloc, config, pixel_size, dist_reports,
                   section_key, coloc_reports, all_data>>
    /\ UNCHANGED matchVars
    /\ UNCHANGED histVars
    /\ UNCHANGED runVars
    /\ UNCHANGED summaryVars

NextOrganizer == ScanDataStructure \/ PerformOrganization

SpecOrganizer == InitOrganizer /\ [][NextOrganizer]_vars

\* =============================================================== claims
\* The call of SpecMatch and its result.
Called == calls # <<>>
Res == calls[1].coloc_data
Thr == calls[1].threshold

\* The indices of a detection set.
Ids(dets) == {RowIndex(i) : i \in 1..Len(dets)}
\* The detection with index idx.
Det(dets, idx) == dets[idx - 1]
\* The smallest distance of the detection at position i of set 1 to set 2.
MinDist(i) ==
    LET ds == {Distance(detections1[i], detections2[j]) : j \in 1..Len(detections2)}
    IN  CHOOSE d \in ds : \A e \in ds : d <= e
\* The pairs recorded for the set-1 index idx1.
PairsFrom(idx1) == {i \in 1..Len(Res.pairs) : Res.pairs[i][1] = idx1}
FirstOfPairs == {Res.pairs[i][1] : i \in 1..Len(Res.pairs)}
SecondOfPairs == {Res.pairs[i][2] : i \in 1..Len(Res.pairs)}

\* C2: the partner recorded for a detection a of set 1 is a detection of set 2
\* at minimum Euclidean distance from a, and among the detections of set 2 at
\* that minimum distance it is the one with the lowest id; the distance kept
\* for a is that minimum.
C2_NearestLowestId ==
    (Called /\ detections1 # <<>> /\ detections2 # <<>>) =>
        /\ \A i \in 1..Len(Res.pairs) :
             LET a == Det(detections1, Res.pairs[i][1])
                 idx2 == Res.pairs[i][2]
             IN  /\ idx2 \in Ids(detections2)
                 /\ \A j \in Ids(detections2) :
                      /\ SqDist(a, Det(detections2, idx2)) <= SqDist(a, Det(detections2, j))
                      /\ SqDist(a, Det(detections2, idx2)) = SqDist(a, Det(detections2, j))
                            => idx2 <= j
        /\ \A i \in 1..Len(detections1) :
             /\ \E j \in 1..Len(detections2) :
                  Res.distances[i] = Distance(detections1[i], detections2[j])
             /\ \A j \in 1..Len(detections2) :
                  Res.distances[i] <= Distance(detections1[i], detections2[j])

\* A pair is recorded whose partner is tied with a later detection of set 2.
C2_Witness ==
    /\ Called
    /\ \E i \in 1..Len(Res.pairs) :
         \E j \in Ids(detections2) :
            /\ j > Res.pairs[i][2]
            /\ SqDist(Det(detections1, Res.pairs[i][1]), Det(detections2, j))
                 = SqDist(Det(detections1, Res.pairs[i][1]), Det(detections2, Res.pairs[i][2]))

\* C3: with both sets non-empty, a detection a of set 1 has a recorded pair
\* exactly when its minimum distance is at most the threshold, the pair carries
\* that distance, and otherwise a is in unpaired_1; the scenario A = {(0,0),
\* (10,10)}, B = {(0,3), (20,20)}, threshold 5 gives the one pair (first of A,
\* first of B, 3) and leaves the second of A and the second of B unmatched.
C3_PairIffWithinThreshold ==
    (Called /\ detections1 # <<>> /\ detections2 # <<>>) =>
        /\ \A i \in 1..Len(detections1) :
             /\ (PairsFrom(RowIndex(i)) # {}) <=> (MinDist(i) <= Thr)
             /\ \A k \in PairsFrom(RowIndex(i)) : Res.pairs[k][3] = MinDist(i)
             /\ (PairsFrom(RowIndex(i)) = {}) <=> (RowIndex(i) \in Range(Res.unpaired_1))
        /\ (detections1 = ScenarioA /\ detections2 = ScenarioB /\ Thr = ScenarioThreshold) =>
             /\ Res.pairs = <<(<<RowIndex(1), RowIndex(1), 3 * Scale>>)>>
             /\ Res.unpaired_1 = <<RowIndex(2)>>
             /\ Res.unpaired_2 = <<RowIndex(2)>>

\* The scenario has been run.
C3_Witness ==
    /\ Called
    /\ detections1 = ScenarioA /\ detections2 = ScenarioB /\ Thr = ScenarioThreshold
    /\ Len(Res.pairs) = 1

\* C4: every id of set 1 is the first component of a recorded pair or is in
\* unpaired_1, never both and never neither.
C4_Completeness ==
    Called =>
        \A idx \in Ids(detections1) :
            (idx \in FirstOfPairs) <=> ~(idx \in Range(Res.unpaired_1))

\* C5: when either set is empty the result has no pairs and every member of the
\* other set is unmatched on its side.
C5_EmptySets ==
    (Called /\ (detections1 = <<>> \/ detections2 = <<>>)) =>
        /\ Res.pairs = <<>>
        /\ detections2 = <<>> =>
             /\ Range(Res.unpaired_1) = Ids(detections1)
             /\ Res.unpaired_2 = <<>>
        /\ detections1 = <<>> => Range(Res.unpaired_2) = Ids(detections2)

\* C6: unpaired_2 holds exactly the ids of set 2 that are the second component
\* of no recorded pair.
C6_Unpaired2 ==
    Called => Range(Res.unpaired_2) = Ids(detections2) \ SecondOfPairs

\* C7: an id of set 1 is the first component of at most one pair, and when two
\* detections of set 1 have the same nearest neighbour within the threshold both
\* pairs, to that same neighbour, are recorded.
C7_ManyToOne ==
    (Called /\ detections1 # <<>> /\ detections2 # <<>>) =>
        /\ \A idx \in Ids(detections1) : Cardinality(PairsFrom(idx)) <= 1
        /\ LET nearest == [i \in 1..Len(detections1) |->
                              ArgMin(DistancesTo(detections1[i], detections2))]
                dist == [i \in 1..Len(detections1) |-> MinDist(i)]
                recorded == Range(Res.pairs)
           IN  \A i, k \in 1..Len(detections1) :
                  (i # k /\ nearest[i] = nearest[k] /\ dist[i] <= Thr /\ dist[k] <= Thr) =>
                     /\ <<RowIndex(i), RowIndex(nearest[i]), dist[i]>> \in recorded
                     /\ <<RowIndex(k), RowIndex(nearest[k]), dist[k]>> \in recorded

\* Two pairs share their set-2 detection.
C7_Witness ==
    /\ Called
    /\ \E i, k \in 1..Len(Res.pairs) : i # k /\ Res.pairs[i][2] = Res.pairs[k][2]

\* C8 as stated: distances holds one raw minimum distance for every detection of
\* set 1, whatever the inputs.
C8_OneDistancePerDetection ==
    Called => Len(Res.distances) = Len(detections1)

\* C8 amended: when set 2 is not empty, distances holds the minimum distance of
\* every detection of set 1, in set-1 order, within the threshold or not; when a
\* set is empty it is empty; and it is the same at every threshold.
C8_RawDistances ==
    Called =>
        /\ detections2 # <<>> =>
             /\ Len(Res.distances) = Len(detections1)
             /\ \A i \in 1..Len(detections1) : Res.distances[i] = MinDist(i)
        /\ (detections1 = <<>> \/ detections2 = <<>>) => Res.distances = <<>>
        /\ \A t \in Thresholds \ {Thr} :
             find_colocalizations(detections1, detections2, t).distances = Res.distances

\* A distance above the threshold is retained.
C8_Witness ==
    /\ Called
    /\ \E i \in 1..Len(Res.distances) : Res.distances[i] > Thr
    /\ \E i \in 1..Len(Res.distances) : Res.distances[i] <= Thr

\* C9: every pair recorded at a threshold is recorded, with the same partner and
\* distance, at every larger threshold.
C9_ThresholdMonotone ==
    Called =>
        \A t2 \in Thresholds \cup {ScenarioThreshold} :
            Thr < t2 =>
                Range(Res.pairs) \subseteq
                    Range(find_colocalizations(detections1, detections2, t2).pairs)

\* A larger threshold keeps the recorded pairs and adds one.
C9_Witness ==
    /\ Called
    /\ Res.pairs # <<>>
    /\ \E t2 \in Thresholds :
         /\ Thr < t2
         /\ Len(find_colocalizations(detections1, detections2, t2).pairs) > Len(Res.pairs)

\* ---- the triple resolution (Spec)
WfaAgg == PairSet(PairsOf(section_results, Key("WFA", "Agg")))
WfaPv == PairSet(PairsOf(section_results, Key("WFA", "PV")))
AggPv == PairSet(PairsOf(section_results, Key("Agg", "PV")))
\* The rows emitted for the WFA-Agg pair (x, y).
RowsOf(x, y) == {i \in 1..Len(triple_coloc) : triple_coloc[i].wfa = x /\ triple_coloc[i].agg = y}

\* Every WFA detection has at most one accepted WFA-PV pair, which makes PvMatch
\* independent of the iteration order of the set.
UniquePartner ==
    \A p, q \in WfaPv : p[1] = q[1] => p = q

\* C1: the three constituent pairs of every emitted triple are accepted pairs of
\* their own pairwise result: (wfa, agg) of WFA-Agg, (wfa, pv) of WFA-PV and
\* (agg, pv), Agg id first, of Agg-PV.
C1_TripleConsistency ==
    (pc = "written" /\ triple_invoked) =>
        \A i \in 1..Len(triple_coloc) :
            /\ <<triple_coloc[i].wfa, triple_coloc[i].agg>> \in WfaAgg
            /\ <<triple_coloc[i].wfa, triple_coloc[i].pv>> \in WfaPv
            /\ <<triple_coloc[i].agg, triple_coloc[i].pv>> \in AggPv

\* C10: a WFA-Agg pair (x, y) has exactly one emitted triple (x, y, z) when x has
\* the accepted WFA-PV partner z and (y, z) is an accepted Agg-PV pair, and no
\* emitted triple otherwise.
C10_ChainExactlyOnce ==
    (pc = "written" /\ triple_invoked) =>
        /\ \A xy \in WfaAgg :
             IF \E z \in Ids(section_results.detections["PV"]) :
                    <<xy[1], z>> \in WfaPv /\ <<xy[2], z>> \in AggPv
             THEN /\ Cardinality(RowsOf(xy[1], xy[2])) = 1
                  /\ \A i \in RowsOf(xy[1], xy[2]) :
                       /\ <<xy[1], triple_coloc[i].pv>> \in WfaPv
                       /\ <<xy[2], triple_coloc[i].pv>> \in AggPv
             ELSE RowsOf(xy[1], xy[2]) = {}
        /\ \A i \in 1..Len(triple_coloc) :
             <<triple_coloc[i].wfa, triple_coloc[i].agg>> \in WfaAgg

\* The distances recorded for the pair (a, b), a of the first channel, in the pair
\* list of the channel pair key.
RecordedDistances(key, a, b) ==
    LET pairs == section_results.colocalizations[key].pairs
    IN  {pairs[i][3] : i \in {k \in 1..Len(pairs) : pairs[k][1] = a /\ pairs[k][2] = b}}

\* C11: the representative distance of every emitted triple (x, y, z) is the mean
\* of exactly three values: the recorded distance of (x, y) in WFA-Agg, of (x, z)
\* in WFA-PV and of (y, z) in Agg-PV.
C11_MeanOfThree ==
    (pc = "written" /\ triple_invoked) =>
        \A i \in 1..Len(triple_coloc) :
            LET r == triple_coloc[i]
            IN  \E d1 \in RecordedDistances(Key("WFA", "Agg"), r.wfa, r.agg) :
                \E d2 \in RecordedDistances(Key("WFA", "PV"), r.wfa, r.pv) :
                \E d3 \in RecordedDistances(Key("Agg", "PV"), r.agg, r.pv) :
                    /\ r.distances = <<d1, d2, d3>>
                    /\ r.avg = (d1 + d2 + d3) \div 3

\* The position of the WFA-Agg pair (x, y) in the pair list.
WfaAggPosition(x, y) ==
    LET pairs == section_results.colocalizations[Key("WFA", "Agg")].pairs
    IN  CHOOSE k \in 1..Len(pairs) : pairs[k][1] = x /\ pairs[k][2] = y

\* C12: the triples are emitted in the relative order of their WFA-Agg pairs in
\* the WFA-Agg pair list.
C12_PairListOrder ==
    (pc = "written" /\ triple_invoked) =>
        \A i, j \in 1..Len(triple_coloc) :
            i < j => WfaAggPosition(triple_coloc[i].wfa, triple_coloc[i].agg)
                        < WfaAggPosition(triple_coloc[j].wfa, triple_coloc[j].agg)

\* ---- the histogram (SpecHist)
Created == pc \in {"hist_created", "hist_written", "hist_raised"}
Written == pc \in {"hist_written", "hist_raised"}
NoPlateau == dist_data.plateau = NoneVal

\* The number of raw distances that satisfy P.
Raw(P(_)) == BagSum(hist_call.distances, {d \in DOMAIN hist_call.distances : P(d)})

\* The last bin edge: the smallest whole number of units not below max_dist.
LastEdge == CHOOSE e \in 0..(hist_call.max_dist \div Scale + 1) :
                e * Scale >= hist_call.max_dist /\ (e - 1) * Scale < hist_call.max_dist

\* The number of raw distances in bin i, counted from 1: [i - 1, i), and the
\* last bin of the histogram also holds the distances equal to the last edge.
BinCount(i) ==
    Raw(LAMBDA d : \/ (i - 1) * Scale <= d /\ d < i * Scale
                   \/ i = LastEdge /\ d = LastEdge * Scale)

C14_CountsAndCumulative ==
    Created =>
        /\ Len(dist_data.bins) = Len(dist_data.counts)
        /\ Len(dist_data.cumulative) = Len(dist_data.counts)
        /\ \A i \in 1..Len(dist_data.counts) :
             /\ dist_data.bins[i] = i - 1
             /\ dist_data.counts[i] = BinCount(i)
             /\ dist_data.cumulative[i] =
                    (IF i = 1 THEN 0 ELSE dist_data.cumulative[i - 1]) + dist_data.counts[i]
        /\ (hist_call.distances = ScenarioDistances /\ hist_call.max_dist = ScenarioMaxDist)
             => /\ dist_data.counts = <<1, 2, 0, 0, 1>>
                /\ dist_data.cumulative = <<1, 3, 3, 3, 4>>

C14_Witness ==
    /\ Created
    /\ hist_call.distances = ScenarioDistances
    /\ hist_call.max_dist = ScenarioMaxDist
    /\ Len(dist_data.counts) = 5

\* C15: the reported bin counts sum to at most the number of raw distances, and
\* to exactly that number when max_distance is at least the largest raw distance
\* and there is no plateau truncation.
C15_Conservation ==
    Created =>
        /\ SumSeq(dist_data.counts) <= hist_call.total_ch1
        /\ (NoPlateau /\ Raw(LAMBDA d : d > hist_call.max_dist) = 0)
             => SumSeq(dist_data.counts) = hist_call.total_ch1

C15_Witness ==
    /\ Created
    /\ NoPlateau
    /\ hist_call.max_dist = 5 * Scale
    /\ hist_call.distances[5 * Scale] > 0
    /\ Raw(LAMBDA d : d > hist_call.max_dist) = 0

\* The increase of bin i, counted from 0, is below 0.5% of the detection count of
\* the reference channel.
SmallIncrease(i) == BinCount(i + 1) * 1000 < 5 * hist_call.total_ch1
\* The three most recent increases at bin i are all below 0.5%.
ThreeSmall(i) == SmallIncrease(i - 2) /\ SmallIncrease(i - 1) /\ SmallIncrease(i)

\* C16: with plateau detection enabled the plateau is the first bin i, scanning
\* from index 3, at which the increases of the bins i-2, i-1 and i are each below
\* 0.5% of the detection count of the reference channel; it is never one of the
\* first three bins, and none is flagged when detection is disabled.
C16_PlateauRule ==
    Created =>
        IF config.stop_at_plateau /\ \E i \in 3..(LastEdge - 1) : ThreeSmall(i)
        THEN /\ dist_data.plateau \in 3..(LastEdge - 1)
             /\ ThreeSmall(dist_data.plateau)
             /\ \A i \in 3..(dist_data.plateau - 1) : ~ThreeSmall(i)
        ELSE dist_data.plateau = NoneVal

\* A plateau at bin 3 whose three increases are not all zero.
C16_Witness ==
    /\ Created
    /\ dist_data.plateau = 3
    /\ BinCount(4) > 0

\* C17: when a plateau is flagged at bin i, the report is written without error,
\* holds no bin beyond i, and displays the truncation point i.
C17_TruncatedReportWritten ==
    (Written /\ dist_data.plateau # NoneVal) =>
        /\ dist_report.status = "written"
        /\ \A k \in 1..Len(dist_report.rows) : dist_report.rows[k].bin_start <= dist_data.plateau
        /\ dist_report.stopped_at = dist_data.plateau

\* The denominator that C18 names for the percentage fields of a report.
NamedDenominator ==
    IF config.stop_at_plateau THEN hist_call.total_ch1
    ELSE dist_data.cumulative[Len(dist_data.cumulative)]

\* C18: the percentage fields of a written report divide by the final cumulative
\* total when plateau truncation is not requested, and by the detection count of
\* the reference channel when it is requested.
C18_Denominators ==
    (Written /\ dist_report.status = "written" /\ NamedDenominator > 0) =>
        \A k \in 1..Len(dist_report.rows) :
            /\ dist_report.rows[k].percent =
                   PercentTenths(dist_report.rows[k].count, NamedDenominator)
            /\ dist_report.rows[k].cumulative_percent =
                   PercentTenths(dist_report.rows[k].cumulative, NamedDenominator)

\* ---- the distance reports of a section (SpecReports)
Generated == pc \in {"distributed", "written", "raised"} /\ config.generate_distance_reports
HasPixelSize == pixel_size # NoneVal
\* The computed pairs with at least one distance.
PairsWithDistances ==
    {k \in DOMAIN section_results.colocalizations :
        section_results.colocalizations[k].distances # <<>>}
\* A section for which generate_distance_distribution stores a histogram.
ReportsStored == ~(HasPixelSize /\ config.distance_report_mode = "2")

\* C19: after the distributions of a section are generated, the section holds one
\* histogram for every computed pair that has distances, and each of them is
\* written to its report.
C19_OneHistogramPerPair ==
    (Generated /\ ReportsStored) =>
        /\ PairsWithDistances \subseteq DOMAIN section_results.distance_distribution
        /\ pc = "written" => PairsWithDistances \subseteq DOMAIN dist_reports

\* The units of the histograms the section holds.
Units == {section_results.distance_distribution[k].unit :
            k \in DOMAIN section_results.distance_distribution}

\* C20: the unit is microns for a section with pixel size under mode 1 or 3,
\* pixels for a section without pixel size under mode 3, pixels for every section
\* under mode 2, and a section without pixel size is skipped under mode 1.
C20_UnitByMode ==
    (Generated /\ PairsWithDistances # {}) =>
        LET mode == config.distance_report_mode
        IN  /\ (HasPixelSize /\ mode \in {"1", "3"}) => Units = {"um"}
            /\ (~HasPixelSize /\ mode = "3") => Units = {"pixels"}
            /\ mode = "2" => Units = {"pixels"}
            /\ (~HasPixelSize /\ mode = "1") => Units = {}

\* ------------------------------------------------------------------ C21
\* C21: every call of find_colocalizations made for a section receives the pixel
\* threshold configured for that (mouse, section), and that threshold is > 0.
C21_ConfiguredThreshold ==
    \A i \in DOMAIN calls :
        /\ section_key \in DOMAIN thresholds
        /\ calls[i].threshold = thresholds[section_key].pixels
        /\ calls[i].threshold > 0

\* ------------------------------------------------------------------ C22
\* C22: a pixel size <= 0 makes the derivation of the pixel threshold fail as an
\* invalid configuration: no threshold is stored for such a section and the
\* configuration does not end in an uncaught ZeroDivisionError.
C22_InvalidPixelSizeRejected ==
    /\ pc # "ZeroDivisionError"
    /\ \A k \in DOMAIN thresholds :
          k \in DOMAIN pixel_sizes => pixel_sizes[k] > 0

\* ------------------------------------------------------------------ C23
\* C23: after the failure of one section the run goes on: as long as sections
\* remain, the next one is started.
C23_RunContinues ==
    (pc = "raised" /\ section_num < Len(mice_sections)) => ENABLED StartSection

\* ------------------------------------------------------------------ C24
\* C24: a call of process_section that fails leaves all_data as it was: no step
\* but the final store changes all_data, and after a failure all_data has no
\* entry for the failing section.
C24_FailureLeavesAllData ==
    /\ [][pc' # "recorded" => all_data' = all_data]_vars
    /\ [](pc = "raised" => section_key \notin DOMAIN all_data)

\* The second section failed after the first was recorded.
C24_Witness ==
    /\ pc = "raised"
    /\ section_num = Len(RunSectionNames)
    /\ RunKey(1) \in DOMAIN all_data
    /\ all_data[RunKey(1)].colocalizations # <<>>

\* ------------------------------------------------------------------ C25
WellFormed(pt) == pt[1] >= 0 /\ pt[2] >= 0

\* C25: no detection with a malformed (here: negative) coordinate is in a
\* detection list that was matched by find_colocalizations.
C25_MalformedRejected ==
    \A k \in DOMAIN section_results.colocalizations :
        \A side \in {1, 2} :
            \A i \in DOMAIN section_results.detections[k[side]] :
                WellFormed(section_results.detections[k[side]][i])

\* ------------------------------------------------------------------ C26
Analyzed == pc \in {"analyzed", "distributed", "written", "recorded", "raised"}

\* The position of a channel in the selected-channel order.
SelectedIndex(ch) == IndexOf(selected_channels, ch)

\* C26: after the analysis, every unordered pair of loaded channels has one stored
\* result, under the key that puts first the channel selected earlier; the
\* reversed key is not stored, nothing else is stored, and one call was made per
\* stored result.
C26_OneResultPerPair ==
    Analyzed =>
        LET loaded == Range(section_results.channels)
            stored == DOMAIN section_results.colocalizations
        IN  /\ \A a \in loaded : \A b \in loaded \ {a} :
                  SelectedIndex(a) < SelectedIndex(b) =>
                      Key(a, b) \in stored /\ Key(b, a) \notin stored
            /\ \A k \in stored : k[1] \in loaded /\ k[2] \in loaded /\ k[1] # k[2]
            /\ Len(calls) = Cardinality(stored)

\* PV selected before WFA, both loaded with detections that pair.
C26_Witness ==
    /\ pc = "recorded"
    /\ selected_channels = <<"PV", "WFA", "PV">>
    /\ Key("PV", "WFA") \in DOMAIN section_results.colocalizations
    /\ section_results.colocalizations[Key("PV", "WFA")].pairs # <<>>

\* ------------------------------------------------------------------ C27
\* C27: find_colocalizations is called only with two or more channels loaded; the
\* triple resolution is invoked only with all three channels loaded and all three
\* pairwise results stored; a section with fewer than three channels completes.
C27_ChannelAvailability ==
    /\ calls # <<>> => Len(section_results.channels) >= 2
    /\ triple_invoked =>
          /\ Channels \subseteq Range(section_results.channels)
          /\ {Key("WFA", "Agg"), Key("WFA", "PV"), Key("Agg", "PV")}
                \subseteq DOMAIN section_results.colocalizations
    /\ Len(section_results.channels) < Cardinality(Channels) => pc # "raised"

\* The first two parts of C27 alone.
C27_OnlyWhenAvailable ==
    /\ calls # <<>> => Len(section_results.channels) >= 2
    /\ triple_invoked =>
          /\ Channels \subseteq Range(section_results.channels)
          /\ {Key("WFA", "Agg"), Key("WFA", "PV"), Key("Agg", "PV")}
                \subseteq DOMAIN section_results.colocalizations

\* ------------------------------------------------------------------ C29
\* The column of the mouse summary for the channel pair of a stored key.
ColumnOf(k, columns) ==
    IF k \in DOMAIN columns THEN columns[k] ELSE columns[Key(k[2], k[1])]

\* C29: every stored pairwise result has a pairwise report once the section's
\* outputs are written, and its pair count, not 'N/A', in the section's row of
\* the mouse summary and of the master summary.
C29_PairwiseResultsExposed ==
    /\ pc \in {"written", "recorded"} =>
          DOMAIN section_results.colocalizations \subseteq coloc_reports
    /\ pc = "summarized" =>
          LET sections == MouseSections(all_data)
          IN  \A i \in 1..Len(sections) :
                  \A k \in DOMAIN sections[i].colocalizations :
                      /\ summary_rows[i][ColumnOf(k, coloc_pairs)] =
                            Len(sections[i].colocalizations[k].pairs)
                      /\ master_rows[i][ColumnOf(k, master_pairs)] =
                            Len(sections[i].colocalizations[k].pairs)

\* ------------------------------------------------------------------ C30
\* C30: every summed column of the TOTAL row is the sum of the column over all
\* section rows of the mouse summary.
C30_TotalsOverAllSections ==
    pc = "summarized" =>
        LET section_rows == SubSeq(summary_rows, 1, Len(summary_rows) - 1)
            total_row == summary_rows[Len(summary_rows)]
        IN  \A i \in 1..Len(sum_columns) :
                total_row[sum_columns[i]] = ColumnTotal(section_rows, sum_columns[i])

\* ------------------------------------------------------------------ C28
\* The folder holds a .csv file or prediction output, directly or in a subfolder.
HoldsData(item) ==
    \/ "csv" \in item.files
    \/ "predictions_file" \in item.files
    \/ "predictions_dir" \in item.subdirs
    \/ "csv_dir" \in item.subdirs

\* C28: a folder scheduled for deletion or removed holds no .csv file and no
\* prediction output anywhere inside it.
C28_DataFoldersKept ==
    (Range(operations.deletions) \cup removed) # {} => ~HoldsData(folder)

====
